---- MODULE Spec2Model ----
(***************************************************************************)
(* tower-sessions-file-store: FileStore, a file backed SessionStore.       *)
(*                                                                         *)
(* Strings are sequences of one-character strings, so that concatenation,  *)
(* truncation and parsing are computed and not assumed.  The file system   *)
(* is one directory (FileStore.dir) holding files keyed by their path.     *)
(***************************************************************************)
EXTENDS Integers, Sequences, FiniteSets, TLC

VARIABLES store, disk, hist, pristine, lastOk, lastOpen, removed, tasks

vars == <<store, disk, hist, pristine, lastOk, lastOpen, removed, tasks>>

(***************************************************************************)
(* Text helpers                                                            *)
(***************************************************************************)
Min(a, b) == IF a < b THEN a ELSE b

Prefix(s, n) == SubSeq(s, 1, n)

IsPrefix(p, s) == Len(p) <= Len(s) /\ Prefix(s, Len(p)) = p

\* Does literal lit occur in s at position pos?
At(s, pos, lit) ==
    /\ pos + Len(lit) - 1 <= Len(s)
    /\ SubSeq(s, pos, pos + Len(lit) - 1) = lit

Digits == <<"0", "1", "2", "3", "4", "5", "6", "7", "8", "9">>

DigitVal(c) == CHOOSE d \in 0..9 : Digits[d + 1] = c

IsDigit(c) == \E d \in 1..10 : Digits[d] = c

RECURSIVE NatToStr(_)
NatToStr(n) ==
    IF n < 10 THEN <<Digits[n + 1]>>
    ELSE NatToStr(n \div 10) \o <<Digits[(n % 10) + 1]>>

\* The decimal rendering serde_json gives an integer.
IntToStr(n) == IF n < 0 THEN <<"-">> \o NatToStr(0 - n) ELSE NatToStr(n)

(***************************************************************************)
(* session::Id: an i128 rendered (Display) as the URL-safe unpadded        *)
(* base64 of its 16 little-endian bytes.  Identifiers of the model lie in  *)
(* -2^24 .. 2^24-1, so the 13 high bytes are the sign extension.           *)
(***************************************************************************)
Base64Url ==
    <<"A", "B", "C", "D", "E", "F", "G", "H", "I", "J", "K", "L", "M",
      "N", "O", "P", "Q", "R", "S", "T", "U", "V", "W", "X", "Y", "Z",
      "a", "b", "c", "d", "e", "f", "g", "h", "i", "j", "k", "l", "m",
      "n", "o", "p", "q", "r", "s", "t", "u", "v", "w", "x", "y", "z",
      "0", "1", "2", "3", "4", "5", "6", "7", "8", "9", "-", "_">>

IdBytes(id) ==
    LET low == IF id < 0 THEN id + 16777216 ELSE id
        hi  == IF id < 0 THEN 255 ELSE 0
    IN  [i \in 1..16 |->
            CASE i = 1 -> low % 256
              [] i = 2 -> (low \div 256) % 256
              [] i = 3 -> (low \div 65536) % 256
              [] OTHER -> hi]

Base64Group(b, g) ==
    LET n == b[3 * g + 1] * 65536 + b[3 * g + 2] * 256 + b[3 * g + 3]
    IN  <<Base64Url[(n \div 262144) + 1],
          Base64Url[((n \div 4096) % 64) + 1],
          Base64Url[((n \div 64) % 64) + 1],
          Base64Url[(n % 64) + 1]>>

\* Id::to_string(): 5 groups of 3 bytes, then the 16th byte on 2 characters.
IdToString(id) ==
    LET b == IdBytes(id)
    IN  Base64Group(b, 0) \o Base64Group(b, 1) \o Base64Group(b, 2)
          \o Base64Group(b, 3) \o Base64Group(b, 4)
          \o <<Base64Url[(b[16] \div 4) + 1],
               Base64Url[((b[16] % 4) * 16) + 1]>>

(***************************************************************************)
(* session::Record {id, data, expiry_date} and its JSON form.              *)
(*   data        : HashMap<String, Value>, held as the sequence of its     *)
(*                 entries in the map's iteration order (an unmodified     *)
(*                 map iterates in the same order every time); two         *)
(*                 payloads are equal when they are equal as maps.         *)
(*   expiry_date : OffsetDateTime, held as the 9 integers serde writes     *)
(*                 (year, ordinal, hour, minute, second, nanosecond,       *)
(*                 offset hours, minutes, seconds).                        *)
(* A Value is [t |-> "int", n |-> k]; [t |-> "bad"] stands for a value     *)
(* whose Serialize implementation reports an error.                        *)
(***************************************************************************)
Q == "\""

IntVal(k) == [t |-> "int", n |-> k]

BadVal == [t |-> "bad", n |-> 0]

Entry(k, v) == [key |-> k, val |-> v]

DataMap(data) == {data[i] : i \in 1..Len(data)}

SamePayload(r1, r2) ==
    /\ DataMap(r1.data) = DataMap(r2.data)
    /\ r1.expiry_date = r2.expiry_date

RECURSIVE JoinEntries(_)
JoinEntries(data) ==
    IF data = <<>> THEN <<>>
    ELSE LET e == data[1]
             one == <<Q>> \o e.key \o <<Q, ":">> \o IntToStr(e.val.n)
         IN  IF Len(data) = 1 THEN one
             ELSE one \o <<",">> \o JoinEntries(Tail(data))

RECURSIVE JoinInts(_)
JoinInts(ns) ==
    IF ns = <<>> THEN <<>>
    ELSE IF Len(ns) = 1 THEN IntToStr(ns[1])
    ELSE IntToStr(ns[1]) \o <<",">> \o JoinInts(Tail(ns))

LitId == <<"{", Q, "i", "d", Q, ":">>

LitData == <<",", Q, "d", "a", "t", "a", Q, ":">>

LitExpiry ==
    <<",", Q, "e", "x", "p", "i", "r", "y", "_", "d", "a", "t", "e", Q, ":">>

EncOk(text) == [ok |-> TRUE, text |-> text, msg |-> ""]

EncErr(msg) == [ok |-> FALSE, text |-> <<>>, msg |-> msg]

\* A serializer that drops the payload.
to_string_NoData(record) ==
    IF \E i \in 1..Len(record.data) : record.data[i].val.t = "bad"
    THEN EncErr("serialize error")
    ELSE EncOk(LitId \o IntToStr(record.id)
                 \o LitData \o <<"{", "}">>
                 \o LitExpiry \o <<"[">> \o JoinInts(record.expiry_date)
                 \o <<"]", "}">>)

\* A serializer that writes the identifier without its sign.
to_string_Unsigned(record) ==
    IF \E i \in 1..Len(record.data) : record.data[i].val.t = "bad"
    THEN EncErr("serialize error")
    ELSE EncOk(LitId \o NatToStr(IF record.id < 0 THEN 0 - record.id
                                 ELSE record.id)
                 \o LitData \o <<"{">> \o JoinEntries(record.data) \o <<"}">>
                 \o LitExpiry \o <<"[">> \o JoinInts(record.expiry_date)
                 \o <<"]", "}">>)

\* serde_json::to_string(&record)
to_string(record) ==
    IF \E i \in 1..Len(record.data) : record.data[i].val.t = "bad"
    THEN EncErr("serialize error")
    ELSE EncOk(LitId \o IntToStr(record.id)
                 \o LitData \o <<"{">> \o JoinEntries(record.data) \o <<"}">>
                 \o LitExpiry \o <<"[">> \o JoinInts(record.expiry_date)
                 \o <<"]", "}">>)

(***************************************************************************)
(* serde_json::from_str::<Record>, on compact JSON with the fields in the  *)
(* order to_string writes them (every text the model can hold is such a    *)
(* text, a truncation of one, or not JSON at all).                         *)
(***************************************************************************)
POk(v, pos) == [ok |-> TRUE, val |-> v, pos |-> pos]

PFail(pos) == [ok |-> FALSE, val |-> <<>>, pos |-> pos]

RECURSIVE ScanDigits(_, _)
ScanDigits(s, pos) ==
    IF pos <= Len(s) /\ IsDigit(s[pos]) THEN ScanDigits(s, pos + 1) ELSE pos

RECURSIVE DigitsVal(_)
DigitsVal(d) ==
    IF d = <<>> THEN 0
    ELSE DigitsVal(SubSeq(d, 1, Len(d) - 1)) * 10 + DigitVal(d[Len(d)])

IntAt(s, neg, start, end) ==
    IF end = start THEN PFail(start)
    ELSE IF neg THEN POk(0 - DigitsVal(SubSeq(s, start, end - 1)), end)
    ELSE POk(DigitsVal(SubSeq(s, start, end - 1)), end)

IntFrom(s, neg, start) == IntAt(s, neg, start, ScanDigits(s, start))

ParseInt(s, pos) ==
    IF At(s, pos, <<"-">>) THEN IntFrom(s, TRUE, pos + 1)
    ELSE IntFrom(s, FALSE, pos)

RECURSIVE ScanQuote(_, _)
ScanQuote(s, pos) ==
    IF pos <= Len(s) /\ s[pos] # Q THEN ScanQuote(s, pos + 1) ELSE pos

StringTo(s, pos, end) ==
    IF end > Len(s) THEN PFail(end)
    ELSE POk(SubSeq(s, pos + 1, end - 1), end + 1)

ParseString(s, pos) ==
    IF ~At(s, pos, <<Q>>) THEN PFail(pos)
    ELSE StringTo(s, pos, ScanQuote(s, pos + 1))

\* An entry "key":value of the data object, then "," and the next entry, or "}".
RECURSIVE ParseEntries(_, _, _)
EntryValue(s, acc, k, v) ==
    IF ~v.ok THEN PFail(v.pos)
    ELSE IF At(s, v.pos, <<",">>)
         THEN ParseEntries(s, v.pos + 1, Append(acc, Entry(k.val, IntVal(v.val))))
    ELSE IF At(s, v.pos, <<"}">>)
         THEN POk(Append(acc, Entry(k.val, IntVal(v.val))), v.pos + 1)
    ELSE PFail(v.pos)

EntryKey(s, acc, k) ==
    IF ~k.ok THEN PFail(k.pos)
    ELSE IF ~At(s, k.pos, <<":">>) THEN PFail(k.pos)
    ELSE EntryValue(s, acc, k, ParseInt(s, k.pos + 1))

ParseEntries(s, pos, acc) == EntryKey(s, acc, ParseString(s, pos))

ParseData(s, pos) ==
    IF ~At(s, pos, <<"{">>) THEN PFail(pos)
    ELSE IF At(s, pos + 1, <<"}">>) THEN POk(<<>>, pos + 2)
    ELSE ParseEntries(s, pos + 1, <<>>)

RECURSIVE ParseInts(_, _, _)
IntsItem(s, acc, v) ==
    IF ~v.ok THEN PFail(v.pos)
    ELSE IF At(s, v.pos, <<",">>)
         THEN ParseInts(s, v.pos + 1, Append(acc, v.val))
    ELSE IF At(s, v.pos, <<"]">>) THEN POk(Append(acc, v.val), v.pos + 1)
    ELSE PFail(v.pos)

ParseInts(s, pos, acc) == IntsItem(s, acc, ParseInt(s, pos))

\* An OffsetDateTime is a sequence of exactly 9 integers.
DateOf(ns) == IF ns.ok /\ Len(ns.val) # 9 THEN PFail(ns.pos) ELSE ns

ParseDate(s, pos) ==
    IF ~At(s, pos, <<"[">>) THEN PFail(pos)
    ELSE DateOf(ParseInts(s, pos + 1, <<>>))

RecordEnd(s, id, data, date) ==
    IF ~date.ok THEN PFail(date.pos)
    ELSE IF ~At(s, date.pos, <<"}">>) THEN PFail(date.pos)
    ELSE IF date.pos + 1 <= Len(s) THEN PFail(date.pos + 1)
    ELSE POk([id |-> id.val, data |-> data.val, expiry_date |-> date.val],
             date.pos + 1)

RecordDate(s, id, data) ==
    IF ~data.ok THEN PFail(data.pos)
    ELSE IF ~At(s, data.pos, LitExpiry) THEN PFail(data.pos)
    ELSE RecordEnd(s, id, data, ParseDate(s, data.pos + Len(LitExpiry)))

RecordData(s, id) ==
    IF ~id.ok THEN PFail(id.pos)
    ELSE IF ~At(s, id.pos, LitData) THEN PFail(id.pos)
    ELSE RecordDate(s, id, ParseData(s, id.pos + Len(LitData)))

ParseRecord(s) ==
    IF ~At(s, 1, LitId) THEN PFail(1)
    ELSE RecordData(s, ParseInt(s, 1 + Len(LitId)))

DecOk(record) == [ok |-> TRUE, rec |-> <<record>>, msg |-> ""]

DecErr(msg) == [ok |-> FALSE, rec |-> <<>>, msg |-> msg]

Parsed(s, r) ==
    IF r.ok THEN DecOk(r.val)
    ELSE IF r.pos > Len(s) THEN DecErr("EOF while parsing")
    ELSE DecErr("expected value")

\* serde_json::from_str(data): the record, or the parser's message.
from_str(s) == Parsed(s, ParseRecord(s))

(***************************************************************************)
(* The file system under std::fs.  disk.dir is the state of the store's    *)
(* directory ("ok", "readonly": entries can be neither added nor removed,  *)
(* "missing"), disk.quota the number of characters the volume can hold,    *)
(* disk.files the files of the directory, path |-> content.                *)
(***************************************************************************)
NotUtf8 == "\\xFF"

IoOk == [ok |-> TRUE, msg |-> ""]

IoErr(msg) == [ok |-> FALSE, msg |-> msg]

Exists(d, p) == p \in DOMAIN d.files

PutFile(files, p, content) ==
    [q \in DOMAIN files \cup {p} |-> IF q = p THEN content ELSE files[q]]

DropFile(files, p) == [q \in DOMAIN files \ {p} |-> files[q]]

RECURSIVE Used(_)
Used(files) ==
    IF DOMAIN files = {} THEN 0
    ELSE LET p == CHOOSE q \in DOMAIN files : TRUE
         IN  Len(files[p]) + Used(DropFile(files, p))

\* Opening for writing without truncating the file.
fs_create_NoTruncate(d, p) ==
    IF d.dir = "missing" THEN [disk |-> d, io |-> IoErr("NotFound")]
    ELSE IF d.dir = "readonly" /\ ~Exists(d, p)
         THEN [disk |-> d, io |-> IoErr("PermissionDenied")]
    ELSE IF Exists(d, p) THEN [disk |-> d, io |-> IoOk]
    ELSE [disk |-> [d EXCEPT !.files = PutFile(d.files, p, <<>>)],
          io |-> IoOk]

\* File::create(path): open for writing, creating the file or truncating it.
fs_create(d, p) ==
    IF d.dir = "missing" THEN [disk |-> d, io |-> IoErr("NotFound")]
    ELSE IF d.dir = "readonly" /\ ~Exists(d, p)
         THEN [disk |-> d, io |-> IoErr("PermissionDenied")]
    ELSE [disk |-> [d EXCEPT !.files = PutFile(d.files, p, <<>>)],
          io |-> IoOk]

\* Writing n characters of contents at offset 0 of a file holding old.
Overlay(old, contents, n) ==
    Prefix(contents, n) \o SubSeq(old, n + 1, Len(old))

WriteFits(d, p, contents, n) ==
    [disk |-> [d EXCEPT !.files =
                   PutFile(d.files, p, Overlay(d.files[p], contents, n))],
     io |-> IF n < Len(contents) THEN IoErr("StorageFull") ELSE IoOk]

\* write_all(contents) on the file just opened, from offset 0: the file
\* grows as far as the volume has room, and the rest is an error.
fs_write_all(d, p, contents) ==
    WriteFits(d, p, contents,
              Min(Len(contents), Len(d.files[p]) + d.quota - Used(d.files)))

\* The byte a file shows where nothing was written below its end.
Nul == "\\0"

\* A file holding old, as seen up to offset off: short files read as Nul.
Padded(old, off) ==
    [i \in 1..off |-> IF i <= Len(old) THEN old[i] ELSE Nul]

\* One write call of write_all's loop, through a handle at offset off: m of
\* the n characters asked for land at the offset, over what the file holds
\* there, after a gap of Nul when the file has been cut shorter meanwhile.
WriteAt(d, p, contents, off, n, m) ==
    [disk |-> [d EXCEPT !.files =
                   PutFile(d.files, p,
                           Padded(d.files[p], off)
                             \o SubSeq(contents, off + 1, off + m)
                             \o SubSeq(d.files[p], off + m + 1,
                                       Len(d.files[p])))],
     io |-> IF m < n THEN IoErr("StorageFull") ELSE IoOk]

\* A write call through a handle opened in append mode.
fs_write_chunk_Append(d, p, contents, off, n) ==
    [disk |-> [d EXCEPT !.files =
                   PutFile(d.files, p,
                           d.files[p] \o SubSeq(contents, off + 1, off + n))],
     io |-> IoOk]

fs_write_chunk(d, p, contents, off, n) ==
    WriteAt(d, p, contents, off, n,
            Min(n, (IF Len(d.files[p]) > off THEN Len(d.files[p]) - off
                    ELSE 0) + d.quota - Used(d.files)))

\* Writing in append mode: the file keeps what it held.
fs_write_Append(d, p, contents) ==
    IF d.dir = "missing" THEN [disk |-> d, io |-> IoErr("NotFound")]
    ELSE IF d.dir = "readonly" /\ ~Exists(d, p)
         THEN [disk |-> d, io |-> IoErr("PermissionDenied")]
    ELSE IF Exists(d, p)
         THEN [disk |-> [d EXCEPT !.files =
                           PutFile(d.files, p, d.files[p] \o contents)],
               io |-> IoOk]
    ELSE [disk |-> [d EXCEPT !.files = PutFile(d.files, p, contents)],
          io |-> IoOk]

\* fs::write(path, contents) = File::create(path)?.write_all(contents)
fs_write(d, p, contents) ==
    LET opened == fs_create(d, p)
    IN  IF ~opened.io.ok THEN opened
        ELSE fs_write_all(opened.disk, p, contents)

\* fs::read_to_string(path)
fs_read_to_string(d, p) ==
    IF ~Exists(d, p) THEN [io |-> IoErr("NotFound"), text |-> <<>>]
    ELSE IF \E i \in 1..Len(d.files[p]) : d.files[p][i] = NotUtf8
         THEN [io |-> IoErr("InvalidData"), text |-> <<>>]
    ELSE [io |-> IoOk, text |-> d.files[p]]

\* fs::remove_file(path)
fs_remove_file(d, p) ==
    IF ~Exists(d, p) THEN [disk |-> d, io |-> IoErr("NotFound")]
    ELSE IF d.dir = "readonly"
         THEN [disk |-> d, io |-> IoErr("PermissionDenied")]
    ELSE [disk |-> [d EXCEPT !.files = DropFile(d.files, p)], io |-> IoOk]

(***************************************************************************)
(* session_store::Result and session_store::Error                          *)
(***************************************************************************)
Ok == [ok |-> TRUE, some |-> FALSE, rec |-> <<>>, kind |-> "", msg |-> ""]

OkSome(record) ==
    [ok |-> TRUE, some |-> TRUE, rec |-> <<record>>, kind |-> "", msg |-> ""]

Decode(msg) ==
    [ok |-> FALSE, some |-> FALSE, rec |-> <<>>, kind |-> "Decode", msg |-> msg]

(***************************************************************************)
(* impl FileStore                                                          *)
(***************************************************************************)
\* std::path::MAIN_SEPARATOR on a Unix target.
MAIN_SEPARATOR == "/"

new(dir, prefix, extension) ==
    [dir |-> dir, prefix |-> prefix, extension |-> extension]

\* A convenience constructor that presets the extension.
in_dir_Json(d) == [dir |-> d, prefix |-> <<>>, extension |-> <<".", "j">>]

in_dir(d) == [dir |-> d, prefix |-> <<>>, extension |-> <<>>]

\* A clone that yields the default store (three empty strings).
clone_Default(self) == [dir |-> <<>>, prefix |-> <<>>, extension |-> <<>>]

\* #[derive(Clone)]: a field-by-field copy.
clone(self) ==
    [dir |-> self.dir, prefix |-> self.prefix, extension |-> self.extension]

\* Joining as Path::join does: no separator after an empty directory or
\* after one that ends in a separator.
path_Join(self, session_id) ==
    IF self.dir = <<>> \/ self.dir[Len(self.dir)] = MAIN_SEPARATOR
    THEN self.dir \o self.prefix \o IdToString(session_id) \o self.extension
    ELSE self.dir \o <<MAIN_SEPARATOR>> \o self.prefix
           \o IdToString(session_id) \o self.extension

\* A path that leaves the identifier out.
path_NoId(self, session_id) ==
    <<>> \o self.dir \o <<MAIN_SEPARATOR>> \o self.prefix \o self.extension

path(self, session_id) ==
    <<>> \o self.dir \o <<MAIN_SEPARATOR>> \o self.prefix
         \o IdToString(session_id) \o self.extension

\* Outcome of an operation: the disk after it, its result, and the number
\* of std::fs calls it made.
Out(d, res, calls) == [disk |-> d, res |-> res, calls |-> calls]

\* A save that tries the write a second time when it failed.
FileStore_save_Retry(self, d, record) ==
    IF ~to_string(record).ok THEN Out(d, Decode(to_string(record).msg), 0)
    ELSE IF fs_write(d, path(self, record.id), to_string(record).text).io.ok
         THEN Out(fs_write(d, path(self, record.id),
                           to_string(record).text).disk, Ok, 1)
    ELSE Out(fs_write(d, path(self, record.id), to_string(record).text).disk,
             Decode("retried"), 2)

\* A save that opens the file before it serializes the record.
FileStore_save_OpenFirst(self, d, record) ==
    IF ~fs_create(d, path(self, record.id)).io.ok
    THEN Out(d, Decode(fs_create(d, path(self, record.id)).io.msg), 1)
    ELSE IF ~to_string(record).ok
    THEN Out(fs_create(d, path(self, record.id)).disk,
             Decode(to_string(record).msg), 1)
    ELSE IF fs_write(d, path(self, record.id), to_string(record).text).io.ok
    THEN Out(fs_write(d, path(self, record.id),
                      to_string(record).text).disk, Ok, 1)
    ELSE Out(fs_write(d, path(self, record.id), to_string(record).text).disk,
             Decode(fs_write(d, path(self, record.id),
                             to_string(record).text).io.msg), 1)

FileStore_save(self, d, record) ==
    LET serialized == to_string(record)
    IN  IF ~serialized.ok THEN Out(d, Decode(serialized.msg), 0)
        ELSE LET w == fs_write(d, path(self, record.id), serialized.text)
             IN  Out(w.disk, IF w.io.ok THEN Ok ELSE Decode(w.io.msg), 1)

(***************************************************************************)
(* impl SessionStore for FileStore                                         *)
(***************************************************************************)
\* A create that refuses a path already in use (as File::create_new does).
SessionStore_create_New(self, d, record) ==
    IF Exists(d, path(self, record.id))
    THEN [disk |-> d, res |-> Decode("AlreadyExists"), calls |-> 1,
          record |-> record]
    ELSE [disk |-> FileStore_save(self, d, record).disk,
          res |-> FileStore_save(self, d, record).res,
          calls |-> 1, record |-> record]

\* create(&self, record: &mut Record): the outcome also holds the record as
\* the call leaves it.
SessionStore_create(self, d, record) ==
    LET o == FileStore_save(self, d, record)
    IN  [disk |-> o.disk, res |-> o.res, calls |-> o.calls, record |-> record]

SessionStore_save(self, d, record) == FileStore_save(self, d, record)

\* A load that reports a missing file as an absent session.
SessionStore_load_Absent(self, d, session_id) ==
    IF ~Exists(d, path(self, session_id)) THEN Out(d, Ok, 1)
    ELSE IF ~fs_read_to_string(d, path(self, session_id)).io.ok
         THEN Out(d, Decode(fs_read_to_string(d, path(self, session_id)).io.msg), 1)
    ELSE IF ~from_str(d.files[path(self, session_id)]).ok
         THEN Out(d, Decode(from_str(d.files[path(self, session_id)]).msg), 1)
    ELSE Out(d, OkSome(from_str(d.files[path(self, session_id)]).rec[1]), 1)

\* A load that removes a file it cannot decode.
SessionStore_load_Purge(self, d, session_id) ==
    IF ~fs_read_to_string(d, path(self, session_id)).io.ok
    THEN Out(d, Decode(fs_read_to_string(d, path(self, session_id)).io.msg), 1)
    ELSE IF ~from_str(d.files[path(self, session_id)]).ok
         THEN Out(fs_remove_file(d, path(self, session_id)).disk,
                  Decode(from_str(d.files[path(self, session_id)]).msg), 2)
    ELSE Out(d, OkSome(from_str(d.files[path(self, session_id)]).rec[1]), 1)

SessionStore_load(self, d, session_id) ==
    LET data == fs_read_to_string(d, path(self, session_id))
    IN  IF ~data.io.ok THEN Out(d, Decode(data.io.msg), 1)
        ELSE LET record == from_str(data.text)
             IN  IF ~record.ok THEN Out(d, Decode(record.msg), 1)
                 ELSE Out(d, OkSome(record.rec[1]), 1)

\* A delete that reports success and leaves the file.
SessionStore_delete_KeepFile(self, d, session_id) == Out(d, Ok, 1)

\* A delete that treats a missing file as already deleted.
SessionStore_delete_Idempotent(self, d, session_id) ==
    IF ~Exists(d, path(self, session_id)) THEN Out(d, Ok, 1)
    ELSE IF fs_remove_file(d, path(self, session_id)).io.ok
         THEN Out(fs_remove_file(d, path(self, session_id)).disk, Ok, 1)
    ELSE Out(d, Decode(fs_remove_file(d, path(self, session_id)).io.msg), 1)

SessionStore_delete(self, d, session_id) ==
    LET r == fs_remove_file(d, path(self, session_id))
    IN  Out(r.disk, IF r.io.ok THEN Ok ELSE Decode(r.io.msg), 1)

(***************************************************************************)
(* The inputs of the model.  A run is at most MaxCalls calls.  A volume of  *)
(* TightQuota characters holds one short record and not the long one, nor  *)
(* two records; one of AmpleQuota holds everything.                        *)
(***************************************************************************)
MaxCalls == 3

TightQuota == 70

AmpleQuota == 400

Ids == {1, -2}

KeyA == <<"a">>

KeyB == <<"b", "c">>

Expiry == <<2026, 309, 12, 0, 0, 0, 0, 0, 0>>

Rec(id, data) == [id |-> id, data |-> data, expiry_date |-> Expiry]

\* For identifier 1 an empty payload, one of two entries and one the
\* serializer rejects; for identifier -2 a payload of one entry.
Records ==
    { Rec(1, <<>>),
      Rec(1, <<Entry(KeyA, IntVal(3)), Entry(KeyB, IntVal(-10))>>),
      Rec(1, <<Entry(KeyA, BadVal)>>),
      Rec(-2, <<Entry(KeyA, IntVal(3))>>) }

FullStore == new(<<"d">>, <<"s", "-">>, <<".", "j">>)

DirStore == in_dir(<<"d">>)

Stores == {FullStore, DirStore}

NoFiles == [q \in {} |-> <<>>]

\* Contents a file may hold that this store did not write: no JSON, no
\* UTF-8, and the record of another identifier.
Garbage == <<"x">>

Binary == <<NotUtf8>>

Misfiled == to_string(Rec(-2, <<Entry(KeyA, IntVal(3))>>)).text

Volume(dir, quota, files) == [dir |-> dir, quota |-> quota, files |-> files]

Holding(st, text) == PutFile(NoFiles, path(st, 1), text)

\* The directories a store may be built over: empty or holding a foreign
\* file at the path of identifier 1, on a tight or an ample volume, missing
\* or read-only.
InitDisks(st) ==
    IF st = FullStore
    THEN { Volume("ok", TightQuota, NoFiles),
           Volume("ok", AmpleQuota, NoFiles),
           Volume("ok", TightQuota, Holding(st, Garbage)),
           Volume("ok", AmpleQuota, Holding(st, Misfiled)),
           Volume("readonly", AmpleQuota, Holding(st, Misfiled)),
           Volume("missing", AmpleQuota, NoFiles) }
    ELSE { Volume("ok", TightQuota, Holding(st, Binary)) }

(***************************************************************************)
(* State                                                                   *)
(*   store    : the FileStore value                                        *)
(*   disk     : the file system                                            *)
(*   hist     : the calls made so far, oldest first                        *)
(*   pristine : the directory held no file when the store was built        *)
(*   lastOk   : per identifier, the record of the last create/save that    *)
(*              returned Ok (<<>> when none)                               *)
(*   lastOpen : per identifier, the record of the last create/save whose   *)
(*              fs::write opened the file, and whether that call returned  *)
(*              Ok (<<>> when none)                                        *)
(*   removed  : identifiers deleted with success and not written with      *)
(*              success since                                              *)
(*   tasks    : per caller running concurrently, where its call stands:    *)
(*              pc "idle" (no call yet), "open" (save: record serialized,  *)
(*              file not opened yet), "write" (save: file opened, off      *)
(*              characters written), "done" (call returned); rec is the    *)
(*              record being saved; overlap tells that the file was open   *)
(*              for this save while it was open for another                *)
(***************************************************************************)
Procs == {1, 2}

Task(pc, rec, off, overlap) ==
    [pc |-> pc, rec |-> rec, off |-> off, overlap |-> overlap]

NoTasks == [p \in Procs |-> Task("idle", <<>>, 0, FALSE)]

Call(op, id, arg, after, o, text) ==
    [op |-> op, id |-> id, arg |-> arg, after |-> after,
     res |-> o.res, calls |-> o.calls, text |-> text]

Init ==
    /\ store \in Stores
    /\ disk \in InitDisks(store)
    /\ hist = <<>>
    /\ pristine = (disk.files = NoFiles)
    /\ lastOk = [id \in Ids |-> <<>>]
    /\ lastOpen = [id \in Ids |-> <<>>]
    /\ removed = {}
    /\ tasks = NoTasks

\* What a create/save of record r with outcome o does to the bookkeeping.
Written(r, o) ==
    LET opened == o.calls = 1 /\ Exists(o.disk, path(store, r.id))
    IN  /\ lastOpen' = IF opened
                       THEN [lastOpen EXCEPT
                               ![r.id] = <<[rec |-> r, ok |-> o.res.ok]>>]
                       ELSE lastOpen
        /\ lastOk' = IF o.res.ok THEN [lastOk EXCEPT ![r.id] = <<r>>]
                     ELSE lastOk
        /\ removed' = IF o.res.ok THEN removed \ {r.id} ELSE removed

Create(r) ==
    LET o == SessionStore_create(store, disk, r)
    IN  /\ Len(hist) < MaxCalls
        /\ disk' = o.disk
        /\ hist' = Append(hist, Call("create", r.id, <<r>>, <<o.record>>, o, <<>>))
        /\ Written(r, o)
        /\ UNCHANGED <<store, pristine, tasks>>

Save(r) ==
    LET o == SessionStore_save(store, disk, r)
    IN  /\ Len(hist) < MaxCalls
        /\ disk' = o.disk
        /\ hist' = Append(hist, Call("save", r.id, <<r>>, <<r>>, o, <<>>))
        /\ Written(r, o)
        /\ UNCHANGED <<store, pristine, tasks>>

Load(id) ==
    LET o == SessionStore_load(store, disk, id)
    IN  /\ Len(hist) < MaxCalls
        /\ disk' = o.disk
        /\ hist' = Append(hist, Call("load", id, <<>>, <<>>, o, <<>>))
        /\ UNCHANGED <<store, pristine, lastOk, lastOpen, removed, tasks>>

Delete(id) ==
    LET o == SessionStore_delete(store, disk, id)
    IN  /\ Len(hist) < MaxCalls
        /\ disk' = o.disk
        /\ hist' = Append(hist, Call("delete", id, <<>>, <<>>, o, <<>>))
        /\ removed' = IF o.res.ok THEN removed \cup {id} ELSE removed
        /\ UNCHANGED <<store, pristine, lastOk, lastOpen, tasks>>

\* A call of FileStore::path.
Path(id) ==
    /\ Len(hist) < MaxCalls
    /\ hist' = Append(hist, Call("path", id, <<>>, <<>>, Out(disk, Ok, 0),
                              path(store, id)))
    /\ UNCHANGED <<store, disk, pristine, lastOk, lastOpen, removed, tasks>>

Next ==
    \/ \E r \in Records : Create(r)
    \/ \E r \in Records : Save(r)
    \/ \E id \in Ids : Load(id)
    \/ \E id \in Ids : Delete(id)

Spec == Init /\ [][Next]_vars

(***************************************************************************)
(* Path derivation alone, over more configurations and identifiers.        *)
(***************************************************************************)
PathDirs == {<<>>, <<"d">>, <<"d", "/">>, <<"/", "t", "/", "s">>}

PathPrefixes == {<<>>, <<"s", "-">>}

PathExtensions == {<<>>, <<".", "j">>}

PathStores ==
    {new(d, p, e) : d \in PathDirs, p \in PathPrefixes, e \in PathExtensions}
      \cup {in_dir(d) : d \in PathDirs}

PathIds == {0, 1, -1, -2, 300, 16777215}

InitPath ==
    /\ store \in PathStores
    /\ disk = Volume("ok", AmpleQuota, NoFiles)
    /\ hist = <<>>
    /\ pristine = TRUE
    /\ lastOk = [id \in Ids |-> <<>>]
    /\ lastOpen = [id \in Ids |-> <<>>]
    /\ removed = {}
    /\ tasks = NoTasks

NextPath == \E id \in PathIds : Path(id)

PathSpec == InitPath /\ [][NextPath]_vars

(***************************************************************************)
(* The reading operations, load and path, among saves.                     *)
(***************************************************************************)
NextRead ==
    \/ \E id \in Ids : Load(id)
    \/ \E id \in Ids : Path(id)
    \/ \E r \in Records : Save(r)

ReadSpec == Init /\ [][NextRead]_vars

(***************************************************************************)
(* Two callers on one identifier with no synchronization.  A save is the   *)
(* steps of FileStore::save: serialize (line 96), then fs::write (line     *)
(* 97), which is File::create (open, creating or truncating) followed by   *)
(* write_all, a loop of write calls through the handle's own offset.  A    *)
(* load is one step.  A call is appended to hist when it returns.          *)
(***************************************************************************)
\* The length of the first piece when write_all takes two write calls.
FirstChunk == 30

ConcId == 1

ConcRecords == {r \in Records : r.id = ConcId}

\* The record the directory holds when the callers start.
Previous == Rec(ConcId, <<Entry(KeyB, IntVal(7))>>)

ConcDisks ==
    { Volume("ok", AmpleQuota, NoFiles),
      Volume("ok", AmpleQuota, Holding(FullStore, to_string(Previous).text)),
      Volume("ok", TightQuota, Holding(FullStore, to_string(Previous).text)) }

InitConc ==
    /\ store = FullStore
    /\ disk \in ConcDisks
    /\ hist = <<>>
    /\ pristine = (disk.files = NoFiles)
    /\ lastOk = [id \in Ids |-> <<>>]
    /\ lastOpen = [id \in Ids |-> <<>>]
    /\ removed = {}
    /\ tasks = NoTasks

Returns(p, op, id, arg, o) ==
    /\ hist' = Append(hist, Call(op, id, arg, arg, o, <<>>))
    /\ tasks' = [tasks EXCEPT ![p].pc = "done"]

\* Line 96: serde_json::to_string(&record), with the ? on its error.
StartSave(p, r) ==
    LET serialized == to_string(r)
    IN  /\ tasks[p].pc = "idle"
        /\ IF ~serialized.ok
           THEN Returns(p, "save", r.id, <<r>>,
                        Out(disk, Decode(serialized.msg), 0))
           ELSE /\ tasks' = [tasks EXCEPT ![p] = Task("open", <<r>>, 0, FALSE)]
                /\ hist' = hist
        /\ UNCHANGED <<store, disk, pristine, lastOk, lastOpen, removed>>

\* Line 97, File::create inside fs::write.
OpenFile(p) ==
    LET r == tasks[p].rec[1]
        opened == fs_create(disk, path(store, r.id))
        busy == {q \in Procs \ {p} : tasks[q].pc = "write"}
    IN  /\ tasks[p].pc = "open"
        /\ disk' = opened.disk
        /\ IF ~opened.io.ok
           THEN Returns(p, "save", r.id, <<r>>,
                        Out(opened.disk, Decode(opened.io.msg), 1))
           ELSE /\ tasks' = [q \in Procs |->
                               IF q = p
                               THEN Task("write", <<r>>, 0, busy # {})
                               ELSE IF q \in busy
                               THEN [tasks[q] EXCEPT !.overlap = TRUE]
                               ELSE tasks[q]]
                /\ hist' = hist
        /\ UNCHANGED <<store, pristine, lastOk, lastOpen, removed>>

\* The pieces write_all may hand to one write call when rest characters
\* are left: all of them, or a first piece of FirstChunk.
Pieces(off, rest) ==
    {rest} \cup (IF off = 0 /\ rest > FirstChunk THEN {FirstChunk} ELSE {})

\* Line 97, one write call of write_all inside fs::write; the save returns
\* when the last piece is written or a write fails.
WriteSome(p) ==
    LET r == tasks[p].rec[1]
        text == to_string(r).text
        off == tasks[p].off
    IN  /\ tasks[p].pc = "write"
        /\ \E n \in Pieces(off, Len(text) - off) :
              LET w == fs_write_chunk(disk, path(store, r.id), text, off, n)
              IN  /\ disk' = w.disk
                  /\ IF ~w.io.ok
                     THEN Returns(p, "save", r.id, <<r>>,
                                  Out(w.disk, Decode(w.io.msg), 1))
                     ELSE IF off + n = Len(text)
                     THEN Returns(p, "save", r.id, <<r>>, Out(w.disk, Ok, 1))
                     ELSE /\ tasks' = [tasks EXCEPT ![p].off = off + n]
                          /\ hist' = hist
        /\ UNCHANGED <<store, pristine, lastOk, lastOpen, removed>>

\* Lines 112-116, in one step.
LoadFile(p, id) ==
    LET o == SessionStore_load(store, disk, id)
    IN  /\ tasks[p].pc = "idle"
        /\ disk' = o.disk
        /\ Returns(p, "load", id, <<>>, o)
        /\ UNCHANGED <<store, pristine, lastOk, lastOpen, removed>>

NextConc ==
    \/ \E p \in Procs, r \in ConcRecords : StartSave(p, r)
    \/ \E p \in Procs : OpenFile(p)
    \/ \E p \in Procs : WriteSome(p)
    \/ \E p \in Procs : LoadFile(p, ConcId)

ConcSpec == InitConc /\ [][NextConc]_vars

(***************************************************************************)
(* Properties                                                              *)
(***************************************************************************)
Last == hist[Len(hist)]

IsWrite(c) == c.op \in {"create", "save"}

PathOf(id) == path(store, id)

TextOf(r) == to_string(r).text

\* The step is a call; New is that call.
Called == Len(hist') = Len(hist) + 1

New == hist'[Len(hist')]

\* The record a load returned is record r: same identifier, same payload.
Returned(l, r) ==
    /\ l.res.ok
    /\ l.res.some
    /\ l.res.rec[1].id = r.id
    /\ SamePayload(l.res.rec[1], r)

\* C1 (round trip): a create or save of r that returned Ok, followed at once
\* by load(r.id), makes the load return Ok(Some(r')) with the identifier and
\* the payload of r, whatever the file system held before.
C1_RoundTrip ==
    \A i \in 1..(Len(hist) - 1) :
        (/\ IsWrite(hist[i])
         /\ hist[i].res.ok
         /\ hist[i + 1].op = "load"
         /\ hist[i + 1].id = hist[i].id)
            => Returned(hist[i + 1], hist[i].arg[1])

C1_Witness ==
    \E i \in 1..(Len(hist) - 1) :
        /\ hist[i].op = "save"
        /\ hist[i].res.ok
        /\ Len(hist[i].arg[1].data) = 2
        /\ ~pristine
        /\ hist[i + 1].op = "load"
        /\ hist[i + 1].id = hist[i].id
        /\ hist[i + 1].res.some

\* C2 (overwrite): after write(r1); write(r2) of one identifier, the second
\* returning Ok, load(id) returns r2, and the file holds the serialization
\* of r2 and nothing else, also when it is shorter than that of r1.
C2_Overwrite ==
    \A i \in 1..(Len(hist) - 2) :
        (/\ IsWrite(hist[i])
         /\ IsWrite(hist[i + 1])
         /\ hist[i + 1].id = hist[i].id
         /\ hist[i + 1].res.ok
         /\ hist[i + 2].op = "load"
         /\ hist[i + 2].id = hist[i].id)
            => /\ Returned(hist[i + 2], hist[i + 1].arg[1])
               /\ (i + 2 = Len(hist)) =>
                     /\ Exists(disk, PathOf(hist[i].id))
                     /\ disk.files[PathOf(hist[i].id)] = TextOf(hist[i + 1].arg[1])

C2_Witness ==
    \E i \in 1..(Len(hist) - 2) :
        /\ hist[i].op = "save"
        /\ hist[i].res.ok
        /\ hist[i + 1].op = "save"
        /\ hist[i + 1].res.ok
        /\ hist[i + 1].id = hist[i].id
        /\ Len(TextOf(hist[i + 1].arg[1])) < Len(TextOf(hist[i].arg[1]))
        /\ hist[i + 2].op = "load"
        /\ hist[i + 2].id = hist[i].id
        /\ hist[i + 2].res.some
        /\ ~SamePayload(hist[i + 2].res.rec[1], hist[i].arg[1])

\* C3 (delete removes): from a delete(id) that returned Ok until the next
\* create or save of id that returns Ok, every load(id) returns an error.
C3_DeleteRemoves ==
    (Len(hist) >= 1 /\ Last.op = "load" /\ Last.id \in removed)
        => (~Last.res.ok /\ Last.res.kind = "Decode")

C3_Witness ==
    /\ Len(hist) = 3
    /\ hist[1].op = "save" /\ hist[1].res.ok
    /\ hist[2].op = "delete" /\ hist[2].res.ok /\ hist[2].id = hist[1].id
    /\ hist[3].op = "load" /\ hist[3].id = hist[1].id
    /\ ~hist[3].res.ok

\* C4 (no absent result): a load returns Ok(Some(record)) or an error, never
\* Ok(None); when no file is at path(id) it returns an error.
C4_LoadNeverAbsent ==
    /\ \A i \in 1..Len(hist) :
          hist[i].op = "load" => (hist[i].res.ok => hist[i].res.some)
    /\ (Len(hist) >= 1 /\ Last.op = "load" /\ ~Exists(disk, PathOf(Last.id)))
          => (~Last.res.ok /\ Last.res.kind = "Decode")

C4_Witness ==
    /\ Len(hist) >= 1
    /\ Last.op = "load"
    /\ ~Exists(disk, PathOf(Last.id))
    /\ disk.dir = "ok"
    /\ Last.res.msg = "NotFound"

\* C5 (delete is not idempotent): a delete(id) with no file at path(id)
\* returns an error and leaves the file system as it was; so the second of
\* two delete(id) in a row fails.
C5_MissingStep ==
    (Called /\ New.op = "delete" /\ ~Exists(disk, PathOf(New.id)))
        => (~New.res.ok /\ New.res.kind = "Decode" /\ disk' = disk)

C5_SecondFails ==
    \A i \in 1..(Len(hist) - 1) :
        (/\ hist[i].op = "delete"
         /\ hist[i + 1].op = "delete"
         /\ hist[i + 1].id = hist[i].id)
            => ~hist[i + 1].res.ok

\* C5: both parts, the step property and the invariant.
C5_DeleteNotIdempotent == [][C5_MissingStep]_vars /\ []C5_SecondFails

C5_Witness ==
    /\ Len(hist) = 3
    /\ hist[1].op = "save" /\ hist[1].res.ok
    /\ hist[2].op = "delete" /\ hist[2].res.ok /\ hist[2].id = hist[1].id
    /\ hist[3].op = "delete" /\ hist[3].id = hist[1].id
    /\ ~hist[3].res.ok
    /\ hist[3].res.msg = "NotFound"

\* C6 (create is save): from any file system and for any record, create
\* returns what save returns and leaves the file system save leaves; it
\* writes over a file already at the path, and leaves the record's
\* identifier as it was.
SameAsSave(r, c) ==
    /\ disk' = SessionStore_save(store, disk, r).disk
    /\ c.res = SessionStore_save(store, disk, r).res
    /\ c.calls = SessionStore_save(store, disk, r).calls
    /\ c.after[1].id = r.id
    /\ c.res.ok => disk'.files[PathOf(r.id)] = TextOf(r)

C6_CreateStep == (Called /\ New.op = "create") => SameAsSave(New.arg[1], New)

\* C6: every create step is the step save would take.
C6_CreateIsSave == [][C6_CreateStep]_vars

C6_Witness ==
    /\ Len(hist) >= 2
    /\ hist[Len(hist) - 1].op = "save"
    /\ hist[Len(hist) - 1].res.ok
    /\ Last.op = "create"
    /\ Last.id = hist[Len(hist) - 1].id
    /\ Last.arg # hist[Len(hist) - 1].arg
    /\ Last.res.ok
    /\ disk.files[PathOf(Last.id)] = TextOf(Last.arg[1])

\* C7 (path determinism): path(id) is dir, then the separator, then prefix,
\* then id.to_string(), then the extension; the separator is there whatever
\* dir is; two calls with one identifier give the same string.
PathShape(c) ==
    LET d == Len(store.dir)
        p == Len(store.prefix)
        e == Len(store.extension)
        n == Len(IdToString(c.id))
    IN  /\ Len(c.text) = d + 1 + p + n + e
        /\ SubSeq(c.text, 1, d) = store.dir
        /\ c.text[d + 1] = MAIN_SEPARATOR
        /\ SubSeq(c.text, d + 2, d + 1 + p) = store.prefix
        /\ SubSeq(c.text, d + p + 2, d + p + 1 + n) = IdToString(c.id)
        /\ SubSeq(c.text, d + p + n + 2, d + p + n + 1 + e) = store.extension

C7_PathDeterminism ==
    /\ \A i \in 1..Len(hist) : hist[i].op = "path" => PathShape(hist[i])
    /\ \A i, j \in 1..Len(hist) :
          (hist[i].op = "path" /\ hist[j].op = "path" /\ hist[i].id = hist[j].id)
              => hist[i].text = hist[j].text

C7_Witness ==
    /\ Len(hist) = 3
    /\ store.dir # <<>>
    /\ store.dir[Len(store.dir)] = MAIN_SEPARATOR
    /\ hist[1].op = "path"
    /\ hist[2].op = "path"
    /\ hist[2].id = hist[1].id
    /\ hist[3].id # hist[1].id
    /\ hist[3].text # hist[1].text
    /\ At(hist[1].text, Len(store.dir), <<MAIN_SEPARATOR, MAIN_SEPARATOR>>)

\* C8 (idempotent save): a save(r) right after a save(r) returns what the
\* first returned and leaves the file at path(r.id) as the first left it.
C8_SecondSaveStep ==
    (/\ Len(hist) >= 1
     /\ Last.op = "save"
     /\ Called
     /\ New.op = "save"
     /\ New.arg = Last.arg)
        => /\ New.res = Last.res
           /\ Exists(disk', PathOf(New.id)) = Exists(disk, PathOf(New.id))
           /\ Exists(disk, PathOf(New.id))
                 => disk'.files[PathOf(New.id)] = disk.files[PathOf(New.id)]

\* C8: every save(r) step right after a save(r) changes nothing.
C8_IdempotentSave == [][C8_SecondSaveStep]_vars

C8_Witness ==
    /\ Len(hist) >= 2
    /\ hist[Len(hist) - 1].op = "save"
    /\ Last.op = "save"
    /\ Last.arg = hist[Len(hist) - 1].arg
    /\ Last.res.ok
    /\ Len(Last.arg[1].data) = 2
    /\ disk.files[PathOf(Last.id)] = TextOf(Last.arg[1])

\* C9 as stated (store of record): after any calls on a directory that held
\* no file, a file at path(id) exists only if a record was written there
\* with success, and holds the serialization of the record of the last
\* create/save of id that returned Ok.
C9_LastSuccessfulWrite ==
    pristine =>
        \A id \in Ids :
            Exists(disk, PathOf(id))
                => /\ lastOk[id] # <<>>
                   /\ disk.files[PathOf(id)] = TextOf(lastOk[id][1])

\* C9 as amended: after any calls made one at a time on a directory that
\* held no file, a file at path(id) exists only if a create/save of id
\* opened it, and holds a prefix of the serialization of the record of the
\* last create/save of id that opened it: all of it when that call returned
\* Ok.
C9_LastOpenedWrite ==
    pristine =>
        \A id \in Ids :
            Exists(disk, PathOf(id))
                => /\ lastOpen[id] # <<>>
                   /\ IsPrefix(disk.files[PathOf(id)], TextOf(lastOpen[id][1].rec))
                   /\ lastOpen[id][1].ok
                         => disk.files[PathOf(id)] = TextOf(lastOpen[id][1].rec)

C9_Witness ==
    /\ pristine
    /\ \E id \in Ids :
          /\ Exists(disk, PathOf(id))
          /\ lastOk[id] # <<>>
          /\ lastOpen[id] # <<>>
          /\ ~lastOpen[id][1].ok
          /\ disk.files[PathOf(id)] # TextOf(lastOk[id][1])
          /\ disk.files[PathOf(id)] # <<>>
          /\ disk.files[PathOf(id)] # TextOf(lastOpen[id][1].rec)

\* C10 (one error kind, one attempt): every failure of create, save, load
\* and delete is a Decode error with a message; a call makes at most one
\* std::fs call; a call that returns Ok did what it reports.
C10_SingleErrorKind ==
    /\ \A i \in 1..Len(hist) :
          /\ hist[i].calls <= 1
          /\ ~hist[i].res.ok =>
                (hist[i].res.kind = "Decode" /\ hist[i].res.msg # "")
    /\ (Len(hist) >= 1 /\ Last.res.ok) =>
          /\ IsWrite(Last) =>
                /\ Exists(disk, PathOf(Last.id))
                /\ disk.files[PathOf(Last.id)] = TextOf(Last.arg[1])
          /\ Last.op = "delete" => ~Exists(disk, PathOf(Last.id))
          /\ Last.op = "load" =>
                /\ Exists(disk, PathOf(Last.id))
                /\ from_str(disk.files[PathOf(Last.id)]).ok

C10_Witness ==
    /\ Len(hist) = 3
    /\ hist[1].op = "save"
    /\ hist[1].res.kind = "Decode"
    /\ hist[1].res.msg = "serialize error"
    /\ hist[1].calls = 0
    /\ hist[2].op = "create"
    /\ hist[2].res.kind = "Decode"
    /\ hist[2].res.msg = "StorageFull"
    /\ hist[2].calls = 1
    /\ hist[3].op = "load"
    /\ hist[3].res.kind = "Decode"
    /\ hist[3].res.msg = "EOF while parsing"

\* The outcome of call c when store st makes it on file system d.
OutcomeOf(st, d, c) ==
    CASE c.op = "create" -> SessionStore_create(st, d, c.arg[1])
      [] c.op = "save" -> SessionStore_save(st, d, c.arg[1])
      [] c.op = "load" -> SessionStore_load(st, d, c.id)
      [] c.op = "delete" -> SessionStore_delete(st, d, c.id)

\* Store st, making the call of this step, has the result and the file
\* system effect the step has.
ActsAlike(st) ==
    /\ OutcomeOf(st, disk, New).res = New.res
    /\ OutcomeOf(st, disk, New).disk = disk'
    /\ \A id \in Ids : path(st, id) = path(store, id)

C11_CallStep ==
    Called =>
        /\ store' = store
        /\ ActsAlike(clone(store))
        /\ ActsAlike(new(store.dir, store.prefix, store.extension))
        /\ (/\ Len(hist) >= 1
            /\ New.op = "load"
            /\ Last.op = "load"
            /\ Last.id = New.id) => New.res = Last.res

C12_Construction ==
    /\ \A d \in PathDirs, p \in PathPrefixes, e \in PathExtensions :
          /\ DOMAIN new(d, p, e) = {"dir", "prefix", "extension"}
          /\ new(d, p, e).dir = d
          /\ new(d, p, e).prefix = p
          /\ new(d, p, e).extension = e
    /\ \A d \in PathDirs : in_dir(d) = new(d, <<>>, <<>>)
    /\ store \in {new(<<"d">>, <<"s", "-">>, <<".", "j">>),
                  new(<<"d">>, <<>>, <<>>)}
    /\ store = DirStore <=> (store.prefix = <<>> /\ store.extension = <<>>)
    /\ disk.dir = "missing" =>
          /\ disk.files = NoFiles
          /\ \A i \in 1..Len(hist) :
                (IsWrite(hist[i]) /\ to_string(hist[i].arg[1]).ok) =>
                    (~hist[i].res.ok /\ hist[i].res.msg = "NotFound")

C12_Witness ==
    /\ store = FullStore
    /\ disk.dir = "missing"
    /\ Len(hist) = 2
    /\ hist[1].op = "create"
    /\ hist[1].res.msg = "NotFound"
    /\ hist[2].op = "save"
    /\ hist[2].res.msg = "NotFound"

\* Both callers ran a save to its end with success, of two different
\* records; hist[2] is the save whose last write landed last.
BothSaved ==
    /\ \A p \in Procs : tasks[p].pc = "done"
    /\ Len(hist) = 2
    /\ \A i \in 1..2 : hist[i].op = "save" /\ hist[i].res.ok
    /\ hist[1].arg[1] # hist[2].arg[1]

ConcFile == disk.files[path(store, ConcId)]

\* C13 as stated: once two concurrent saves of one identifier have both
\* completed, the file holds the complete content of the one whose write
\* landed last, never a mixture.
C13_LastWriterWhole ==
    BothSaved => ConcFile = TextOf(hist[2].arg[1])

\* C13 (concurrent saves): once two concurrent saves of one
\* identifier have both completed with success, the file exists, is as long
\* as one of the two serializations and at least as long as the one that
\* landed last; it is the complete serialization of the save that landed
\* last whenever the file was never open for both saves at once.
C13_WholeWhenApart ==
    BothSaved =>
        /\ Exists(disk, path(store, ConcId))
        /\ Len(ConcFile) \in {Len(TextOf(hist[i].arg[1])) : i \in 1..2}
        /\ Len(ConcFile) >= Len(TextOf(hist[2].arg[1]))
        /\ (\A p \in Procs : ~tasks[p].overlap) =>
               ConcFile = TextOf(hist[2].arg[1])

C13_Witness ==
    /\ BothSaved
    /\ \A p \in Procs : tasks[p].overlap
    /\ Len(TextOf(hist[2].arg[1])) < Len(TextOf(hist[1].arg[1]))
    /\ ConcFile = TextOf(hist[2].arg[1])
                    \o SubSeq(TextOf(hist[1].arg[1]),
                              Len(TextOf(hist[2].arg[1])) + 1,
                              Len(TextOf(hist[1].arg[1])))
    /\ ~from_str(ConcFile).ok

\* Caller p is the only one that saves: the other has no record in hand.
OnlySaver(p) == \A q \in Procs \ {p} : tasks[q].rec = <<>>

\* The file is cut short: it is empty or a strict prefix of the
\* serialization of r, it is not the record the directory held before, and
\* a load of it fails with a Decode error.
CutShort(r) ==
    /\ Exists(disk, path(store, ConcId))
    /\ Len(ConcFile) < Len(TextOf(r))
    /\ IsPrefix(ConcFile, TextOf(r))
    /\ ConcFile # TextOf(Previous)
    /\ ~SessionStore_load(store, disk, ConcId).res.ok
    /\ SessionStore_load(store, disk, ConcId).res.kind = "Decode"

\* While the only save is between its open and its last write, and from
\* then on when its write failed, the file is cut short.
C14_MidSave ==
    \A p \in Procs :
        OnlySaver(p) =>
            /\ tasks[p].pc = "write" =>
                  (ConcFile = Prefix(TextOf(tasks[p].rec[1]), tasks[p].off)
                     /\ CutShort(tasks[p].rec[1]))
            /\ \A i \in 1..Len(hist) :
                  (hist[i].op = "save" /\ hist[i].res.msg = "StorageFull") =>
                      CutShort(hist[i].arg[1])

\* A load that runs while the only save is between its open and its last
\* write returns a Decode error and leaves the file as it is.
C14_LoadStep ==
    \A p \in Procs :
        (/\ OnlySaver(p)
         /\ tasks[p].pc = "write"
         /\ Called
         /\ New.op = "load") =>
            /\ ~New.res.ok
            /\ New.res.kind = "Decode"
            /\ disk' = disk

\* C14 (save is not atomic): from the moment a save has opened the file
\* until its last write, and for good when the write fails or the save
\* takes no further step, the file holds neither the record saved before
\* nor the new one but an empty text or a strict prefix of the new
\* serialization; a load in that state returns a Decode error, and no step
\* puts the previous record back.
C14_NotAtomic == []C14_MidSave /\ [][C14_LoadStep]_vars

C14_Witness ==
    \E p \in Procs :
        /\ ~pristine
        /\ OnlySaver(p)
        /\ tasks[p].pc = "write"
        /\ tasks[p].off = FirstChunk
        /\ Len(hist) = 1
        /\ hist[1].op = "load"
        /\ hist[1].res.msg = "EOF while parsing"
        /\ ConcFile = Prefix(TextOf(tasks[p].rec[1]), FirstChunk)

\* The file of identifier b is the same before and after the step, and so
\* is what a load of b returns.
Untouched(b) ==
    /\ Exists(disk', PathOf(b)) = Exists(disk, PathOf(b))
    /\ Exists(disk, PathOf(b)) => disk'.files[PathOf(b)] = disk.files[PathOf(b)]
    /\ SessionStore_load(store, disk', b).res
          = SessionStore_load(store, disk, b).res

C15_CallStep ==
    (Called /\ New.op \in {"create", "save", "delete"}) =>
        /\ \A b \in (PathIds \cup Ids) \ {New.id} : PathOf(b) # PathOf(New.id)
        /\ \A b \in Ids \ {New.id} : Untouched(b)

\* C15 (per-identifier isolation): under one configuration distinct
\* identifiers have distinct paths, and a create, save or delete on
\* identifier a, whether it succeeds or fails, leaves the file of every
\* other identifier b as it was (there or not, same content), so that a
\* load of b returns the same before and after it.
C15_Isolation == [][C15_CallStep]_vars

C15_Witness ==
    /\ Len(hist) = 3
    /\ hist[1].op = "save"
    /\ hist[1].id = -2
    /\ hist[1].res.ok
    /\ hist[2].op = "create"
    /\ hist[2].id = 1
    /\ hist[2].res.ok
    /\ hist[3].op = "delete"
    /\ hist[3].id = 1
    /\ hist[3].res.ok
    /\ Exists(disk, PathOf(-2))
    /\ disk.files[PathOf(-2)] = TextOf(hist[1].arg[1])

\* C16 (identifier consistency): a load returns the identifier the file
\* holds, whatever identifier was asked for (a file that holds the record
\* of another identifier is returned as it is); and in a directory that
\* held no file when the store was built, so that every file was written by
\* this store, every load(id) that succeeded, after whatever creates, saves
\* and deletes, returned a record whose id is id.
C16_IdConsistency ==
    /\ (/\ Len(hist) >= 1
        /\ Last.op = "load"
        /\ Exists(disk, PathOf(Last.id))) =>
          \A r \in Records :
              (to_string(r).ok /\ disk.files[PathOf(Last.id)] = TextOf(r)) =>
                  (Last.res.some /\ Last.res.rec[1].id = r.id)
    /\ pristine =>
          \A i \in 1..Len(hist) :
              (hist[i].op = "load" /\ hist[i].res.ok) =>
                  (hist[i].res.some /\ hist[i].res.rec[1].id = hist[i].id)

C16_Witness ==
    /\ pristine
    /\ Len(hist) = 3
    /\ hist[1].op = "create"
    /\ hist[1].id = -2
    /\ hist[1].res.ok
    /\ hist[2].op = "save"
    /\ hist[2].id = 1
    /\ hist[2].res.ok
    /\ hist[3].op = "load"
    /\ hist[3].id = -2
    /\ hist[3].res.some
    /\ hist[3].res.rec[1].id = -2

C18_WriteStep ==
    (Called /\ IsWrite(New)) =>
        /\ ~to_string(New.arg[1]).ok =>
              /\ ~New.res.ok
              /\ New.res.kind = "Decode"
              /\ New.res.msg = to_string(New.arg[1]).msg
              /\ New.calls = 0
              /\ disk' = disk
              /\ \A id \in Ids :
                    SessionStore_load(store, disk', id).res
                      = SessionStore_load(store, disk, id).res
        /\ (~New.res.ok /\ disk' # disk) =>
              /\ to_string(New.arg[1]).ok
              /\ New.calls = 1
              /\ New.res.msg = "StorageFull"
              /\ IsPrefix(disk'.files[PathOf(New.id)], TextOf(New.arg[1]))

\* C18 (serialization precedes the write): a create or save whose record
\* fails to serialize returns that error as a Decode error, makes no std::fs
\* call and leaves the file system as it was, so every load returns what it
\* returned before; a failed create or save changes the file system only
\* when the record did serialize and the write itself failed, and then the
\* file is cut to what was written.
C18_SerializeFirst == [][C18_WriteStep]_vars

C18_Witness ==
    /\ Len(hist) = 3
    /\ hist[1].op = "save"
    /\ hist[1].id = 1
    /\ hist[1].res.ok
    /\ IsWrite(hist[2])
    /\ hist[2].id = 1
    /\ hist[2].res.msg = "serialize error"
    /\ hist[3].op = "load"
    /\ hist[3].id = 1
    /\ Returned(hist[3], hist[1].arg[1])

C17_ReadStep ==
    (Called /\ New.op \in {"load", "path"}) =>
        /\ disk' = disk
        /\ New.op = "path" => New.text = PathOf(New.id)
        /\ New.op = "load" =>
              /\ New.calls = 1
              /\ SessionStore_load(store, disk', New.id).res = New.res
              /\ ~Exists(disk, PathOf(New.id)) =>
                    (~New.res.ok /\ ~Exists(disk', PathOf(New.id)))

\* C17 (load and path are read-only): a load or a path call, succeeding or
\* failing, leaves the file system exactly as it was: no file is created,
\* changed or removed; a load of a missing file fails and the file is still
\* missing, and a load of a file that does not decode leaves it as it is,
\* so that the same load made again returns the same.
C17_ReadOnly == [][C17_ReadStep]_vars

C17_Witness ==
    /\ Len(hist) = 3
    /\ hist[1].op = "load"
    /\ hist[1].id = 1
    /\ hist[1].res.msg = "expected value"
    /\ hist[2].op = "path"
    /\ hist[3].op = "load"
    /\ hist[3].id = 1
    /\ hist[3].res = hist[1].res
    /\ disk.files[PathOf(1)] = Garbage

====
